---- MODULE Spec2Model ----
(***************************************************************************)
(* A model of the ODrive ASCII protocol client (src/src/commands/mod.rs).  *)
(*                                                                         *)
(* The client owns one byte stream.  Every stream operation the client     *)
(* performs (write of a command line, flush, sleep, one-byte read attempt) *)
(* is one step of the model; the stream is the environment and chooses the *)
(* outcome of each operation.  Pure computation that follows a stream      *)
(* operation (trimming, parsing, the loop tests) belongs to the same step. *)
(*                                                                         *)
(* Text read from the stream is a sequence of one-character strings; a     *)
(* command line written to the stream is a string.  An f32 is the decimal  *)
(* number m / 10^e, written [m |-> m, e |-> e] with no trailing zero in    *)
(* the fraction.                                                           *)
(*                                                                         *)
(* Spec is the client on any stream, LiveSpec is read_string under fair    *)
(* scheduling, DevSpec is the client on a stream with a device that        *)
(* answers every `r` command with one reply line.                          *)
(***************************************************************************)
EXTENDS Integers, Sequences, FiniteSets, TLC

VARIABLES
    pc,          \* position of the client in the operation in progress
    call,        \* the operation in progress (or last finished) and its arguments
    ret,         \* the value the operation returned
    wire,        \* the last command line the stream accepted whole in this operation
    string,      \* read_string: the accumulated characters
    elapsed,     \* read_string: ms since `duration = Instant::now()`
    sinceByte,   \* read_string: ms since the last byte was read (or the call began)
    extra,       \* read_string: what was accumulated after the first MaxStr
                 \* characters (NoExtra if nothing was)
    rsRet,       \* the string the latest read_string returned
    rsEnd,       \* how it ended: "newline", "timeout", or "none" (it has not returned)
    timeout_ctr, \* run_state: the remaining budget
    idleAt,      \* run_state: number of the poll that first read Idle, 0 if none
    nWrite,      \* command-line writes attempted in this operation
    nFlush,      \* flushes attempted in this operation
    nSleep,      \* sleeps performed in this operation
    nLine,       \* read_string calls begun in this operation
    ioFail,      \* the write or flush that failed in this operation, and its error
    rx,          \* device: the bytes it has put in the stream, not yet read
    dev,         \* device: the replies it has not put in the stream entirely
    sent,        \* device: the number of `r` commands it has received
    cur,         \* the `r` command of this call or poll: its number among those
                 \* the device receives, and the reply line once it has received it
    from,        \* the replies of which the read_string in progress has read bytes
    tx,          \* the number of `r` commands written to the stream and not flushed
    open,        \* how the line begins that the stream has taken without its
                 \* newline: "none" (there is none), "r" (the letter r, no
                 \* more), "query" (as an `r` command), "other"
    aside        \* whether `write`, `flush` or `read` of the stream was called, or
                 \* a write or flush that failed left bytes in the stream

devVars == <<rx, dev, sent, cur, from, tx, open, aside>>

vars == <<pc, call, ret, wire, string, extra, elapsed, sinceByte, rsRet, rsEnd,
          timeout_ctr, idleAt, nWrite, nFlush, nSleep, nLine, ioFail, devVars>>

----------------------------------------------------------------------------
(* Bounds of the model *)

\* the model holds the first MaxStr characters that read_string accumulates
MaxStr == 2
\* duration in ms of a read attempt that takes time (the others take 0 ms)
Tick == 500
\* the clock of a read_string call is followed for this many such attempts
MaxTicks == 2
MaxElapsed == MaxTicks * Tick

(* Constants of the program *)

TIMEOUT_MS == 1000
POLL_BUDGET == 100

(* crate::enumerations is not part of the sources at hand *)
Idle == 1
AxisIds == {0, 1}
AxisStates == {1, 3}

----------------------------------------------------------------------------
(* Text *)

Digits == <<"0", "1", "2", "3", "4", "5", "6", "7", "8", "9">>

IsDigit(c) == \E i \in 1..10 : Digits[i] = c

DigitVal(c) == (CHOOSE i \in 1..10 : Digits[i] = c) - 1

\* char::is_whitespace on the chars a byte can become (U+0000..U+00FF):
\* U+0009..U+000D, U+0020, U+0085 and U+00A0 (the last three strings hold
\* U+000B, U+0085 and U+00A0)
IsWhitespace(c) == c \in {" ", "\t", "\n", "\r", "\f", "", "", " "}

RECURSIVE TrimStart(_)
TrimStart(s) ==
    IF s # <<>> /\ IsWhitespace(Head(s)) THEN TrimStart(Tail(s)) ELSE s

RECURSIVE TrimEnd(_)
TrimEnd(s) ==
    IF s # <<>> /\ IsWhitespace(s[Len(s)])
    THEN TrimEnd(SubSeq(s, 1, Len(s) - 1))
    ELSE s

\* str::trim
Trim(s) == TrimEnd(TrimStart(s))

RECURSIVE DecVal(_)
DecVal(s) ==
    IF s = <<>> THEN 0
    ELSE DecVal(SubSeq(s, 1, Len(s) - 1)) * 10 + DigitVal(s[Len(s)])

AllDigits(s) == \A i \in 1..Len(s) : IsDigit(s[i])

I32Max == 2147483647
I32Min == 0 - I32Max - 1

\* <i32 as FromStr>::from_str: an optional sign, then one or more decimal
\* digits, the value within the range of i32
ParseInt(s) ==
    LET signed == s # <<>> /\ s[1] \in {"+", "-"}
        digits == IF signed THEN Tail(s) ELSE s
        v      == IF signed /\ s[1] = "-" THEN 0 - DecVal(digits) ELSE DecVal(digits)
    IN  IF digits = <<>> \/ ~AllDigits(digits) THEN [ok |-> FALSE, val |-> 0]
        ELSE IF v < I32Min \/ v > I32Max THEN [ok |-> FALSE, val |-> 0]
        ELSE [ok |-> TRUE, val |-> v]

RECURSIVE Norm(_, _)
Norm(m, e) ==
    IF m = 0 THEN [m |-> 0, e |-> 0]
    ELSE IF e > 0 /\ m % 10 = 0 THEN Norm(m \div 10, e - 1)
    ELSE [m |-> m, e |-> e]

F32Zero == [m |-> 0, e |-> 0]

\* <f32 as FromStr>::from_str on texts without exponent, "inf" or "nan":
\* an optional sign, digits with at most one ".", at least one digit
ParseFloat(s) ==
    LET signed == s # <<>> /\ s[1] \in {"+", "-"}
        body   == IF signed THEN Tail(s) ELSE s
        dots   == {i \in 1..Len(body) : body[i] = "."}
        dot    == IF dots = {} THEN Len(body) + 1 ELSE CHOOSE i \in dots : TRUE
        int    == SubSeq(body, 1, dot - 1)
        frac   == SubSeq(body, dot + 1, Len(body))
        mag    == DecVal(int \o frac)
    IN  IF Cardinality(dots) > 1 \/ ~AllDigits(int \o frac) \/ int \o frac = <<>>
        THEN [ok |-> FALSE, val |-> F32Zero]
        ELSE [ok |-> TRUE,
              val |-> Norm(IF signed /\ s[1] = "-" THEN 0 - mag ELSE mag, Len(frac))]

\* Result::unwrap_or_default of a parse
ParseIntOrDefault(s) == IF ParseInt(s).ok THEN ParseInt(s).val ELSE 0

ParseFloatOrDefault(s) == IF ParseFloat(s).ok THEN ParseFloat(s).val ELSE F32Zero

RECURSIVE Pow10(_)
Pow10(e) == IF e = 0 THEN 1 ELSE 10 * Pow10(e - 1)

RECURSIVE Pad(_, _)
Pad(n, w) == IF w = 0 THEN "" ELSE Pad(n \div 10, w - 1) \o ToString(n % 10)

\* <f32 as Display>::fmt: the shortest decimal text, no exponent, no
\* fraction for a whole number
FmtF32(f) ==
    LET abs == IF f.m < 0 THEN 0 - f.m ELSE f.m
        sgn == IF f.m < 0 THEN "-" ELSE ""
    IN  IF f.e = 0 THEN sgn \o ToString(abs)
        ELSE sgn \o ToString(abs \div Pow10(f.e)) \o "." \o Pad(abs % Pow10(f.e), f.e)

\* Option<f32>
None == [some |-> FALSE, v |-> F32Zero]
Some(f) == [some |-> TRUE, v |-> f]

\* Option::unwrap_or_default
UnwrapOrDefault(o) == IF o.some THEN o.v ELSE F32Zero

----------------------------------------------------------------------------
(* The stream, as the client sees it *)

\* the bytes a read can deliver
Bytes == {"1", "3", ".", " ", "\n"}

\* the errors an operation of the stream can return
IoErrs == {"WouldBlock", "BrokenPipe"}

\* Read::read into a one-byte buffer: a byte, Ok(0), or an error
ReadResults == Bytes \cup {"Ok0"} \cup IoErrs

\* write_fmt and Write::flush: "ok" or an error (write_all retries a write
\* that was interrupted, so that error is none of them)
WriteResults == {"ok"} \cup IoErrs

\* how long a read attempt can take
Durations == {0, Tick}

\* the arguments of the command writers
Floats == {F32Zero, [m |-> 15, e |-> 1], [m |-> -2, e |-> 0]}
OptFloats == {None} \cup {Some(f) : f \in Floats}

\* read_string: `string` is all that was accumulated
NoExtra == [n |-> 0, core |-> <<>>, ws |-> <<>>]

Ok(v) == [kind |-> "Ok", val |-> v]
Err(e) == [kind |-> "Err", val |-> e]
NoRet == [kind |-> "none"]
NoFail == [at |-> "none", err |-> "none"]
Unit == "()"

----------------------------------------------------------------------------
(* Command lines *)

SetPositionPLine(axis, position, vff, cff) ==
    "p " \o ToString(axis) \o " " \o FmtF32(position) \o " "
         \o FmtF32(UnwrapOrDefault(vff)) \o " " \o FmtF32(UnwrapOrDefault(cff)) \o "\n"

\* (a variant: the verb of set_position_p, copied)
SetPositionQLine_VerbP(axis, position, vlim, clim) ==
    "p " \o ToString(axis) \o " " \o FmtF32(position) \o " "
         \o FmtF32(UnwrapOrDefault(vlim)) \o " " \o FmtF32(UnwrapOrDefault(clim)) \o "\n"

SetPositionQLine(axis, position, vlim, clim) ==
    "q " \o ToString(axis) \o " " \o FmtF32(position) \o " "
         \o FmtF32(UnwrapOrDefault(vlim)) \o " " \o FmtF32(UnwrapOrDefault(clim)) \o "\n"

SetVelocityLine(axis, velocity, cff) ==
    "v " \o ToString(axis) \o " " \o FmtF32(velocity) \o " "
         \o FmtF32(UnwrapOrDefault(cff)) \o "\n"

SetCurrentLine(axis, current) ==
    "c " \o ToString(axis) \o " " \o FmtF32(current) \o "\n"

SetTrajectoryLine(axis, position) ==
    "t " \o ToString(axis) \o " " \o FmtF32(position) \o "\n"

GetVelocityLine(axis) ==
    "r axis" \o ToString(axis) \o " .encoder.vel_estimate" \o "\n"

\* (a variant: the stray space of the get_velocity line)
RequestedStateLine_Spaced(axis, requested_state) ==
    "w axis" \o ToString(axis) \o " .requested_state " \o ToString(requested_state) \o "\n"

RequestedStateLine(axis, requested_state) ==
    "w axis" \o ToString(axis) \o ".requested_state " \o ToString(requested_state) \o "\n"

CurrentStateLine(axis) ==
    "r axis" \o ToString(axis) \o ".current_state" \o "\n"

Writers == {"set_position_p", "set_position_q", "set_velocity", "set_current",
            "set_trajectory"}

\* (a variant: the polls of run_state write the `w` command again)
CmdLine_PollWritesW(c, p) ==
    CASE c.op = "set_position_p" -> SetPositionPLine(c.axis, c.position, c.a1, c.a2)
      [] c.op = "set_position_q" -> SetPositionQLine(c.axis, c.position, c.a1, c.a2)
      [] c.op = "set_velocity"   -> SetVelocityLine(c.axis, c.position, c.a1)
      [] c.op = "set_current"    -> SetCurrentLine(c.axis, c.position)
      [] c.op = "set_trajectory" -> SetTrajectoryLine(c.axis, c.position)
      [] c.op = "get_velocity"   -> GetVelocityLine(c.axis)
      [] c.op = "run_state"      -> RequestedStateLine(c.axis, c.requested_state)

\* the line the operation c writes at position p
CmdLine(c, p) ==
    CASE c.op = "set_position_p" -> SetPositionPLine(c.axis, c.position, c.a1, c.a2)
      [] c.op = "set_position_q" -> SetPositionQLine(c.axis, c.position, c.a1, c.a2)
      [] c.op = "set_velocity"   -> SetVelocityLine(c.axis, c.position, c.a1)
      [] c.op = "set_current"    -> SetCurrentLine(c.axis, c.position)
      [] c.op = "set_trajectory" -> SetTrajectoryLine(c.axis, c.position)
      [] c.op = "get_velocity"   -> GetVelocityLine(c.axis)
      [] c.op = "run_state" /\ p = "write" -> RequestedStateLine(c.axis, c.requested_state)
      [] c.op = "run_state" /\ p = "poll_write" -> CurrentStateLine(c.axis)

----------------------------------------------------------------------------
(* Tests and conversions of the code *)

\* `self.io_stream.read(&mut buffer).unwrap_or_default()`: the number of
\* bytes read, 0 for an error
ReadCount(r) == IF r \in Bytes THEN 1 ELSE 0

\* (a variant: half the time)
TimedOut_Early(ms) == ms >= 500

\* (a variant: `>` for `>=`)
TimedOut_Late(ms) == ms > TIMEOUT_MS

\* `duration.elapsed().as_millis() >= 1_000`
TimedOut(ms) == ms >= TIMEOUT_MS

\* the string read_string returns when it reads the newline
NewlineResult(s) == Trim(s)

\* the string read_string returns when it gives up
TimeoutResult(s) == s

\* read_float: `Ok(self.read_string()?.parse().unwrap_or_default())`
ReadFloatResult(s) == Ok(ParseFloatOrDefault(s))

\* (a variant: `parse()?` for `parse().unwrap_or_default()`)
ReadIntResult_Strict(s) ==
    IF ParseInt(s).ok THEN Ok(ParseInt(s).val) ELSE Err("InvalidData")

\* read_int: `Ok(self.read_string()?.parse().unwrap_or_default())`
ReadIntResult(s) == Ok(ParseIntOrDefault(s))

\* run_state: `self.read_int().unwrap_or_default()`, the value compared with Idle
PolledState(s) == IF ReadIntResult(s).kind = "Ok" THEN ReadIntResult(s).val ELSE 0

\* (a variant: the comparison with Idle is missing)
PollAgain_UntilBudget(st, ctr) == ctr > 0

\* (a variant: `>=` for `>`)
PollAgain_OneMore(st, ctr) == st # Idle /\ ctr >= 0

\* run_state: the condition of the `while`
PollAgain(st, ctr) == st # Idle /\ ctr > 0

\* run_state: `Ok(timeout_ctr > 0)`
RunStateResult(ctr) == Ok(ctr > 0)

\* (a variant: the result is dropped)
Propagates_Never(r) == FALSE

\* the `?` after writeln! and flush (the writers return the result of flush):
\* whether the operation returns the result r at once
Propagates(r) == r # "ok"

----------------------------------------------------------------------------
(* The client *)

\* no `r` command of this call or poll has reached the device
NoCmd == [id |-> 0, line |-> <<>>]

Init ==
    /\ pc = "idle"
    /\ call = [op |-> "none"]
    /\ ret = NoRet
    /\ wire = ""
    /\ string = <<>>
    /\ extra = NoExtra
    /\ elapsed = 0
    /\ sinceByte = 0
    /\ rsRet = <<>>
    /\ rsEnd = "none"
    /\ timeout_ctr = 0
    /\ idleAt = 0
    /\ nWrite = 0
    /\ nFlush = 0
    /\ nSleep = 0
    /\ nLine = 0
    /\ ioFail = NoFail
    /\ rx = <<>>
    /\ dev = <<>>
    /\ sent = 0
    /\ cur = NoCmd
    /\ from = {}
    /\ tx = 0
    /\ open = "none"
    /\ aside = FALSE

\* entry of an operation that first writes a command line
\* (run_state: `let mut timeout_ctr = 100`)
EnterWriting(c) ==
    /\ pc = "idle"
    /\ call' = c
    /\ pc' = "write"
    /\ timeout_ctr' = IF c.op = "run_state" THEN POLL_BUDGET ELSE 0
    /\ UNCHANGED <<ret, wire, string, extra, elapsed, sinceByte, rsRet, rsEnd,
                   idleAt, nWrite, nFlush, nSleep, nLine, ioFail>>

\* entry of read_string: `String::with_capacity(20)`, `Instant::now()`
BeginReadString ==
    /\ pc' = "read"
    /\ string' = <<>>
    /\ extra' = NoExtra
    /\ elapsed' = 0
    /\ sinceByte' = 0
    /\ rsRet' = <<>>
    /\ rsEnd' = "none"
    /\ nLine' = nLine + 1

\* entry of read_string, read_float and read_int
EnterReading(c) ==
    /\ pc = "idle"
    /\ call' = c
    /\ BeginReadString
    /\ UNCHANGED <<ret, wire, timeout_ctr, idleAt, nWrite, nFlush, nSleep, ioFail>>

CallReadString == EnterReading([op |-> "read_string"])

CallReadFloat == EnterReading([op |-> "read_float"])

CallReadInt == EnterReading([op |-> "read_int"])

CallSetPositionP ==
    \E a \in AxisIds, x \in Floats, v \in OptFloats, c \in OptFloats :
        EnterWriting([op |-> "set_position_p", axis |-> a, position |-> x,
                      a1 |-> v, a2 |-> c])

CallSetPositionQ ==
    \E a \in AxisIds, x \in Floats, v \in OptFloats, c \in OptFloats :
        EnterWriting([op |-> "set_position_q", axis |-> a, position |-> x,
                      a1 |-> v, a2 |-> c])

CallSetVelocity ==
    \E a \in AxisIds, x \in Floats, c \in OptFloats :
        EnterWriting([op |-> "set_velocity", axis |-> a, position |-> x, a1 |-> c])

CallSetCurrent ==
    \E a \in AxisIds, x \in Floats :
        EnterWriting([op |-> "set_current", axis |-> a, position |-> x])

CallSetTrajectory ==
    \E a \in AxisIds, x \in Floats :
        EnterWriting([op |-> "set_trajectory", axis |-> a, position |-> x])

CallGetVelocity ==
    \E a \in AxisIds : EnterWriting([op |-> "get_velocity", axis |-> a])

CallRunState ==
    \E a \in AxisIds, s \in AxisStates, w \in BOOLEAN :
        EnterWriting([op |-> "run_state", axis |-> a, requested_state |-> s,
                      wait |-> w])

\* `writeln!(self.io_stream, ...)?`: the stream takes the line or fails
Write ==
    /\ pc \in {"write", "poll_write"}
    /\ \E r \in WriteResults :
        /\ nWrite' = nWrite + 1
        /\ ioFail' = IF r = "ok" THEN ioFail ELSE [at |-> "write", err |-> r]
        /\ wire' = IF r = "ok" THEN CmdLine(call, pc) ELSE wire
        /\ IF Propagates(r)
           THEN /\ pc' = "done"
                /\ ret' = Err(r)
           ELSE /\ pc' = IF pc = "write" THEN "flush" ELSE "poll_flush"
                /\ ret' = ret
    /\ UNCHANGED <<call, string, extra, elapsed, sinceByte, rsRet, rsEnd,
                   timeout_ctr, idleAt, nFlush, nSleep, nLine>>

\* what follows a flush that succeeded
AfterFlush ==
    CASE call.op \in Writers ->
            /\ pc' = "done"
            /\ ret' = Ok(Unit)
            /\ UNCHANGED <<string, extra, elapsed, sinceByte, rsRet, rsEnd,
                           timeout_ctr, nLine>>
      [] call.op = "get_velocity" ->
            /\ BeginReadString
            /\ UNCHANGED <<ret, timeout_ctr>>
      [] call.op = "run_state" /\ pc = "poll_flush" ->
            /\ timeout_ctr' = timeout_ctr - 1
            /\ BeginReadString
            /\ ret' = ret
      [] call.op = "run_state" /\ pc = "flush" ->
            /\ IF call.wait
               THEN pc' = "sleep" /\ ret' = ret
               ELSE pc' = "done" /\ ret' = RunStateResult(timeout_ctr)
            /\ UNCHANGED <<string, extra, elapsed, sinceByte, rsRet, rsEnd,
                           timeout_ctr, nLine>>

\* `self.flush()?` (the writers: `self.flush()`)
Flush ==
    /\ pc \in {"flush", "poll_flush"}
    /\ \E r \in WriteResults :
        /\ nFlush' = nFlush + 1
        /\ ioFail' = IF r = "ok" THEN ioFail ELSE [at |-> "flush", err |-> r]
        /\ IF Propagates(r)
           THEN /\ pc' = "done"
                /\ ret' = Err(r)
                /\ UNCHANGED <<string, extra, elapsed, sinceByte, rsRet, rsEnd,
                               timeout_ctr, nLine>>
           ELSE AfterFlush
    /\ UNCHANGED <<call, wire, idleAt, nWrite, nSleep>>

\* `sleep(Duration::from_millis(100))`
\* (the locals of the read_string call of the previous iteration are gone)
Sleep ==
    /\ pc = "sleep"
    /\ pc' = "poll_write"
    /\ nSleep' = nSleep + 1
    /\ string' = <<>>
    /\ extra' = NoExtra
    /\ elapsed' = 0
    /\ sinceByte' = 0
    /\ rsRet' = <<>>
    /\ rsEnd' = "none"
    /\ UNCHANGED <<call, ret, wire, timeout_ctr, idleAt, nWrite, nFlush, nLine, ioFail>>

\* a string of more than MaxStr characters: the model does not hold it
NotHeld == <<"...">>

\* `string.push(ch as char)` as `string.trim()` will see it. Of the pushed
\* characters h holds core, the trimmed string (NotHeld once it has more
\* than MaxStr characters), and ws, the whitespace pushed after it (of which
\* the first MaxStr are kept: one more character that is no whitespace and
\* the trimmed string is longer than MaxStr)
Push(h, c) ==
    IF h.core = NotHeld THEN h
    ELSE IF IsWhitespace(c)
    THEN IF h.core = <<>> THEN h
         ELSE [h EXCEPT !.ws = IF Len(h.ws) < MaxStr THEN Append(h.ws, c) ELSE h.ws]
    ELSE IF Len(h.core) + Len(h.ws) + 1 > MaxStr
    THEN [core |-> NotHeld, ws |-> <<>>]
    ELSE [core |-> h.core \o h.ws \o <<c>>, ws |-> <<>>]

\* the same of the characters of s, pushed one by one
RECURSIVE Pushed(_)
Pushed(s) ==
    IF s = <<>> THEN [core |-> <<>>, ws |-> <<>>]
    ELSE Push(Pushed(SubSeq(s, 1, Len(s) - 1)), s[Len(s)])

\* the string read_string returns at the timeout: `string` as it is, which
\* the model holds unless more than MaxStr characters were accumulated
ReturnedAtTimeout ==
    IF extra = NoExtra THEN TimeoutResult(string) ELSE NotHeld

\* the string read_string returns at the newline: `string.trim()`, which the
\* model holds unless it has more than MaxStr characters
ReturnedAtNewline ==
    IF extra = NoExtra THEN NewlineResult(string) ELSE extra.core

\* Ok of a number that the model does not hold
OkNotHeld == [kind |-> "Ok", held |-> FALSE]

\* read_string returns the string s: what the operation does with it
\* (of a string that the model does not hold, it does not hold the number
\* either)
Deliver(s) ==
    CASE s = NotHeld ->
            /\ pc' = "done"
            /\ ret' = IF call.op = "read_string" THEN Ok(NotHeld) ELSE OkNotHeld
            /\ idleAt' = idleAt
      [] call.op = "read_string" ->
            /\ pc' = "done"
            /\ ret' = Ok(s)
            /\ idleAt' = idleAt
      [] call.op \in {"read_float", "get_velocity"} ->
            /\ pc' = "done"
            /\ ret' = ReadFloatResult(s)
            /\ idleAt' = idleAt
      [] call.op = "read_int" ->
            /\ pc' = "done"
            /\ ret' = ReadIntResult(s)
            /\ idleAt' = idleAt
      [] call.op = "run_state" ->
            /\ idleAt' = IF idleAt = 0 /\ PolledState(s) = Idle
                         THEN POLL_BUDGET - timeout_ctr ELSE idleAt
            /\ IF PollAgain(PolledState(s), timeout_ctr)
               THEN pc' = "sleep" /\ ret' = ret
               ELSE pc' = "done" /\ ret' = RunStateResult(timeout_ctr)

\* `if ch as char == '\n'`
IsNewline(r) == r = "\n"

\* one turn of the inner loop of read_string: a read attempt that lasts dt ms
\* and has the result r
ReadAttempt(r, dt) ==
    /\ pc = "read"
    /\ elapsed + dt <= MaxElapsed
    /\ elapsed' = elapsed + dt
    /\ extra' = extra
    /\ IF ReadCount(r) = 0
       THEN /\ sinceByte' = sinceByte + dt
            /\ string' = string
            /\ IF TimedOut(elapsed')
               THEN /\ rsRet' = ReturnedAtTimeout
                    /\ rsEnd' = "timeout"
                    /\ Deliver(ReturnedAtTimeout)
               ELSE UNCHANGED <<pc, ret, rsRet, rsEnd, idleAt>>
       ELSE /\ sinceByte' = 0
            /\ IF IsNewline(r)
               THEN /\ string' = string
                    /\ rsRet' = ReturnedAtNewline
                    /\ rsEnd' = "newline"
                    /\ Deliver(ReturnedAtNewline)
               ELSE /\ Len(string) < MaxStr
                    /\ string' = Append(string, r)
                    /\ UNCHANGED <<pc, ret, rsRet, rsEnd, idleAt>>
    /\ UNCHANGED <<call, wire, timeout_ctr, nWrite, nFlush, nSleep, nLine, ioFail>>

Read == \E r \in ReadResults, dt \in Durations : ReadAttempt(r, dt)

\* the operation has returned; the caller has the client again
Return ==
    /\ pc = "done"
    /\ pc' = "idle"
    /\ call' = [op |-> "none"]
    /\ ret' = NoRet
    /\ wire' = ""
    /\ string' = <<>>
    /\ extra' = NoExtra
    /\ elapsed' = 0
    /\ sinceByte' = 0
    /\ rsRet' = <<>>
    /\ rsEnd' = "none"
    /\ timeout_ctr' = 0
    /\ idleAt' = 0
    /\ nWrite' = 0
    /\ nFlush' = 0
    /\ nSleep' = 0
    /\ nLine' = 0
    /\ ioFail' = NoFail

\* the stream is any stream: no device is followed
Quiet == UNCHANGED devVars

Next ==
    \/ CallReadString /\ Quiet
    \/ CallReadFloat /\ Quiet
    \/ CallReadInt /\ Quiet
    \/ CallSetPositionP /\ Quiet
    \/ CallSetPositionQ /\ Quiet
    \/ CallSetVelocity /\ Quiet
    \/ CallSetCurrent /\ Quiet
    \/ CallSetTrajectory /\ Quiet
    \/ CallGetVelocity /\ Quiet
    \/ CallRunState /\ Quiet
    \/ Write /\ Quiet
    \/ Flush /\ Quiet
    \/ Sleep /\ Quiet
    \/ Read /\ Quiet
    \/ Return /\ Quiet

Spec == Init /\ [][Next]_vars

----------------------------------------------------------------------------
(* read_string on a stream that may deliver bytes without end *)

\* a read attempt that delivers a character after the first MaxStr: the code
\* pushes it; the model leaves `string` and keeps in `extra` what the trim
\* of the whole depends on (n is 1 and 2 in turn: a character was pushed)
ReadMore ==
    /\ pc = "read"
    /\ Len(string) = MaxStr
    /\ \E r \in Bytes \ {"\n"}, dt \in Durations :
        /\ ReadCount(r) = 1
        /\ elapsed + dt <= MaxElapsed
        /\ elapsed' = elapsed + dt
        /\ LET was == IF extra = NoExtra THEN Pushed(string)
                      ELSE [core |-> extra.core, ws |-> extra.ws]
               now == Push(was, r)
           IN  extra' = [n |-> IF extra.n = 1 THEN 2 ELSE 1,
                         core |-> now.core, ws |-> now.ws]
    /\ sinceByte' = 0
    /\ UNCHANGED <<pc, call, ret, wire, string, rsRet, rsEnd, timeout_ctr, idleAt,
                   nWrite, nFlush, nSleep, nLine, ioFail>>

\* a read attempt during which the clock advances
SlowRead == \E r \in ReadResults : ReadAttempt(r, Tick)

\* a read attempt that delivers a byte other than the newline
ByteRead == ReadMore \/ \E r \in Bytes \ {"\n"}, dt \in Durations : ReadAttempt(r, dt)

LiveNext ==
    \/ CallReadString /\ Quiet
    \/ CallReadFloat /\ Quiet
    \/ CallReadInt /\ Quiet
    \/ Read /\ Quiet
    \/ ReadMore /\ Quiet
    \/ Return /\ Quiet

\* the thread of the caller runs the loop of read_string, a read of the
\* stream does not block, and the clock advances
LiveSpec ==
    /\ Init
    /\ [][LiveNext]_vars
    /\ WF_vars((Read \/ ReadMore) /\ Quiet)
    /\ WF_vars(SlowRead /\ Quiet)

----------------------------------------------------------------------------
(* The client on a stream with a device at the other end: the device       *)
(* answers each `r` command it receives with one reply line, which it puts *)
(* in the stream byte by byte, each byte after any delay.                  *)

\* the device receives at most MaxReq `r` commands
MaxReq == 2

\* the reply lines of the device
ReplyLines == { <<"1", "\n">>, <<"3", " ", "\n">> }

\* the replies of which a byte is yet to be read
Outstanding == { dev[i].id : i \in DOMAIN dev } \cup { rx[i].id : i \in DOMAIN rx }

\* (a variant: a buffer of two bytes, of which the first is looked at)
ReadSize_Two == 1 + 1

\* `let mut buffer = [0; 1]`: the number of bytes a read takes at most
ReadSize == 1

\* the number of bytes a read takes from the stream
Taken == IF Len(rx) < ReadSize THEN Len(rx) ELSE ReadSize

\* a call leaves the stream and the device as they are
Called == from' = {} /\ UNCHANGED <<rx, dev, sent, cur, tx, open, aside>>

\* the device receives the n `r` commands that a flush sends, and will
\* answer each with a line; what it has of an unfinished line it keeps
Receive(n) ==
    /\ sent' = sent + n
    /\ \E ls \in [1..n -> ReplyLines] :
        /\ dev' = dev \o [i \in 1..n |-> [id |-> sent + i, rest |-> ls[i]]]
        /\ cur' = IF cur.id \in (sent + 1)..(sent + n)
                  THEN [cur EXCEPT !.line = ls[cur.id - sent]] ELSE cur
    /\ tx' = 0
    /\ open' = open
    /\ aside' = aside

\* a flush that failed: the stream keeps what was written, or drops it (and
\* with it the unfinished line, unless the device has its beginning)
NotFlushed ==
    /\ \/ UNCHANGED <<tx, open>>
       \/ tx' = 0 /\ open' \in {open, "none"}
    /\ aside' = (aside \/ tx' > 0)
    /\ UNCHANGED <<dev, sent, cur>>

\* how bytes that begin as k go on the line that the stream has unfinished:
\* the line begins as it began (after the letter r alone no space follows:
\* no line and no buffer of the model begins with one)
Joined(k) ==
    CASE open = "none" -> k
      [] open = "r"    -> "other"
      [] OTHER         -> open

\* the stream takes bytes that begin as k and end with the newline: a line
\* is complete, an `r` command if it begins as one
TakeLine(k) ==
    /\ open' = "none"
    /\ IF Joined(k) = "query"
       THEN sent + tx < MaxReq /\ tx' = tx + 1
       ELSE tx' = tx

\* the stream takes bytes that begin as k and hold no newline
TakePiece(k) == open' = Joined(k) /\ tx' = tx

\* the stream takes no byte
TakeNothing == UNCHANGED <<tx, open>>

\* the line written at position p of the operation c is an `r` command
IsQuery(c, p) == c.op = "get_velocity" \/ p = "poll_write"

\* how that line begins
LineKind(c, p) == IF IsQuery(c, p) THEN "query" ELSE "other"

\* how a part of a line that begins as k begins, the part being its first
\* byte or more, and less than the whole
BeginKinds(k) == IF k = "query" THEN {"r", "query"} ELSE {"other"}

\* a write: the stream holds the line until a flush. The `writeln!` is
\* several writes on the stream; when one of them fails, the stream has
\* taken nothing or a beginning of the line, and keeps it
DevWrite ==
    /\ Write
    /\ IF ioFail' = NoFail
       THEN /\ TakeLine(LineKind(call, pc))
            /\ cur' = IF IsQuery(call, pc) /\ Joined("query") = "query"
                      THEN [id |-> sent + tx + 1, line |-> <<>>] ELSE cur
       ELSE /\ \/ TakeNothing
               \/ \E k \in BeginKinds(LineKind(call, pc)) : TakePiece(k)
            /\ cur' = cur
    /\ aside' = (aside \/ open' # "none")
    /\ UNCHANGED <<rx, dev, sent, from>>

\* a flush: the device receives the `r` commands that the stream holds
DevFlush ==
    /\ Flush
    /\ from' = {}
    /\ IF ioFail' = NoFail THEN Receive(tx) ELSE NotFlushed
    /\ rx' = rx

DevSleep ==
    /\ Sleep
    /\ cur' = NoCmd
    /\ from' = {}
    /\ UNCHANGED <<rx, dev, sent, tx, open, aside>>

\* a read attempt: `self.io_stream.read(&mut buffer)` takes the next bytes
\* of the stream, and the code looks at `buffer[0]`
DevRead ==
    /\ \E dt \in Durations :
        IF rx = <<>>
        THEN /\ \E r \in ReadResults \ Bytes : ReadAttempt(r, dt)
             /\ UNCHANGED <<rx, from>>
        ELSE /\ ReadAttempt(Head(rx).b, dt)
             /\ rx' = SubSeq(rx, Taken + 1, Len(rx))
             /\ from' = from \cup {Head(rx).id}
    /\ UNCHANGED <<dev, sent, cur, tx, open, aside>>

DevReturn ==
    /\ Return
    /\ cur' = NoCmd
    /\ from' = {}
    /\ UNCHANGED <<rx, dev, sent, tx, open, aside>>

\* the device puts the next byte of its oldest unfinished reply in the stream
DevDeliver ==
    /\ dev # <<>>
    /\ rx' = Append(rx, [b |-> Head(Head(dev).rest), id |-> Head(dev).id])
    /\ dev' = IF Len(Head(dev).rest) = 1
              THEN Tail(dev)
              ELSE <<[Head(dev) EXCEPT !.rest = Tail(@)]>> \o Tail(dev)
    /\ UNCHANGED <<pc, call, ret, wire, string, extra, elapsed, sinceByte, rsRet,
                   rsEnd, timeout_ctr, idleAt, nWrite, nFlush, nSleep, nLine, ioFail,
                   sent, cur, from, tx, open, aside>>

(* `impl Write for ODrive` and `impl Read for ODrive`: the caller writes,  *)
(* flushes and reads the stream of the client directly                     *)

\* the buffers the caller writes: whole lines, and the parts of a line as
\* a `writeln!` on the client writes them
RawBufs == { "r axis0.current_state\n", "c 0 0\n",
             "r axis", "0", ".current_state\n" }

\* how the buffer b begins
BufKind(b) == IF b \in {"r axis0.current_state\n", "r axis"} THEN "query" ELSE "other"

\* the buffer b ends with the newline
EndsLine(b) == b \in {"r axis0.current_state\n", "c 0 0\n", ".current_state\n"}

\* how the first k bytes of the buffer b begin, 0 < k < Len(b)
PrefixKind(b, k) ==
    IF BufKind(b) = "query" THEN (IF k = 1 THEN "r" ELSE "query") ELSE "other"

\* the numbers of bytes that the stream takes of a buffer when it does not
\* take the whole
ShortCounts == {0, 1, 5}

\* the lengths of the buffers the caller reads into
RawBufLens == {1, 2}

\* entry of `write`, `flush` and `read`
EnterRaw(c) ==
    /\ pc = "idle"
    /\ call' = c
    /\ pc' = "raw"
    /\ aside' = TRUE
    /\ from' = {}
    /\ UNCHANGED <<ret, wire, string, extra, elapsed, sinceByte, rsRet, rsEnd,
                   timeout_ctr, idleAt, nWrite, nFlush, nSleep, nLine, ioFail,
                   rx, dev, sent, cur, tx, open>>

CallWrite == \E b \in RawBufs : EnterRaw([op |-> "write", buf |-> b])

CallFlush == EnterRaw([op |-> "flush"])

CallRead == \E n \in RawBufLens : EnterRaw([op |-> "read", len |-> n])

\* what `write`, `flush` and `read` leave as it is
RawFrame ==
    UNCHANGED <<call, wire, string, extra, elapsed, sinceByte, rsRet, rsEnd,
                timeout_ctr, idleAt, nWrite, nFlush, nSleep, nLine, ioFail, from>>

\* `self.io_stream.write(buf)`: the stream takes the buffer, or its first
\* bytes, or fails; the call returns the number of bytes taken
RawWrite ==
    /\ pc = "raw" /\ call.op = "write"
    /\ pc' = "done"
    /\ \/ /\ ret' = Ok(Len(call.buf))
          /\ IF EndsLine(call.buf)
             THEN TakeLine(BufKind(call.buf))
             ELSE TakePiece(BufKind(call.buf))
       \/ \E k \in ShortCounts :
            /\ k < Len(call.buf)
            /\ ret' = Ok(k)
            /\ IF k = 0 THEN TakeNothing ELSE TakePiece(PrefixKind(call.buf, k))
       \/ \E r \in IoErrs :
            /\ ret' = Err(r)
            /\ TakeNothing
    /\ RawFrame
    /\ UNCHANGED <<rx, dev, sent, cur, aside>>

\* `self.io_stream.flush()`
RawFlush ==
    /\ pc = "raw" /\ call.op = "flush"
    /\ pc' = "done"
    /\ \E r \in WriteResults :
        IF r = "ok"
        THEN ret' = Ok(Unit) /\ Receive(tx)
        ELSE ret' = Err(r) /\ NotFlushed
    /\ RawFrame
    /\ rx' = rx

\* `self.io_stream.read(buf)`: the stream gives the bytes it has, as many as
\* the buffer takes, or none, or fails
RawRead ==
    /\ pc = "raw" /\ call.op = "read"
    /\ pc' = "done"
    /\ IF rx = <<>>
       THEN /\ \E r \in ReadResults \ Bytes :
                ret' = IF r = "Ok0" THEN Ok([n |-> 0, buf |-> <<>>]) ELSE Err(r)
            /\ rx' = rx
       ELSE LET k == IF Len(rx) < call.len THEN Len(rx) ELSE call.len
            IN  /\ ret' = Ok([n |-> k, buf |-> [i \in 1..k |-> rx[i].b]])
                /\ rx' = SubSeq(rx, k + 1, Len(rx))
    /\ RawFrame
    /\ UNCHANGED <<dev, sent, cur, tx, open, aside>>

DevNext ==
    \/ CallReadString /\ Called
    \/ CallSetCurrent /\ Called
    \/ CallGetVelocity /\ Called
    \/ CallRunState /\ Called
    \/ CallWrite
    \/ CallFlush
    \/ CallRead
    \/ DevWrite
    \/ DevFlush
    \/ DevSleep
    \/ DevRead
    \/ RawWrite
    \/ RawFlush
    \/ RawRead
    \/ DevReturn
    \/ DevDeliver

DevSpec == Init /\ [][DevNext]_vars

----------------------------------------------------------------------------
(* Properties *)

Max0(n) == IF n > 0 THEN n ELSE 0

\* run_state with wait = true has returned without a failed write or flush
WaitedRunStateDone ==
    pc = "done" /\ call.op = "run_state" /\ call.wait /\ ret.kind = "Ok"

\* C1: run_state with wait = true returns Ok(true) if and only if one of its
\* polls read the idle state, whichever of the polls 1..100 read it first;
\* it returns Ok(false) only after 100 polls none of which read idle.
C1_TrueIffIdleWasRead ==
    WaitedRunStateDone =>
        /\ (ret.val = TRUE) <=> (idleAt > 0)
        /\ (ret.val = FALSE) => (nLine = POLL_BUDGET /\ idleAt = 0)

\* C2: run_state with wait = true whose first poll reads idle returns true
\* after exactly one iteration (one sleep, one `r` command, one integer
\* read); when no poll reads idle it returns false after exactly 100
\* iterations.
C2_OnePollOrHundred ==
    WaitedRunStateDone =>
        /\ idleAt = 1 =>
              /\ ret.val = TRUE
              /\ nSleep = 1 /\ nLine = 1 /\ nWrite = 2 /\ nFlush = 2
              /\ wire = "r axis" \o ToString(call.axis) \o ".current_state\n"
        /\ idleAt = 0 =>
              /\ ret.val = FALSE
              /\ nSleep = POLL_BUDGET /\ nLine = POLL_BUDGET
              /\ nWrite = POLL_BUDGET + 1 /\ nFlush = POLL_BUDGET + 1

\* a run in which no poll read idle ends after the 100th poll
C2_NeverIdleWitness ==
    /\ WaitedRunStateDone
    /\ idleAt = 0
    /\ nLine = POLL_BUDGET
    /\ ret = Ok(FALSE)

\* C3: run_state with wait = false writes the one line
\* `w axis<N>.requested_state <state>`, flushes it, sleeps and reads nothing,
\* and returns Ok(true).
C3_NoWaitWritesOnce ==
    (call.op = "run_state" /\ ~call.wait) =>
        /\ nSleep = 0 /\ nLine = 0 /\ nWrite <= 1 /\ nFlush <= 1
        /\ pc \in {"write", "flush", "done"}
        /\ (pc = "done" /\ ioFail = NoFail) =>
              /\ ret = Ok(TRUE)
              /\ nWrite = 1 /\ nFlush = 1
              /\ wire = "w axis" \o ToString(call.axis) \o ".requested_state "
                            \o ToString(call.requested_state) \o "\n"

C3_NoWaitWitness ==
    /\ pc = "done" /\ call.op = "run_state" /\ ~call.wait
    /\ ret.kind = "Ok" /\ ret.val = TRUE /\ nWrite = 1 /\ nFlush = 1
    /\ call.axis = 1 /\ call.requested_state = 3

\* C4: get_velocity writes exactly the line `r axis<N>.encoder.vel_estimate`,
\* the path attached to `axis<N>` with no other separator.
C4_VelocityLine ==
    (call.op = "get_velocity" /\ pc \in {"flush", "read", "done"} /\ ioFail.at # "write") =>
        wire = "r axis" \o ToString(call.axis) \o ".encoder.vel_estimate\n"

\* C5: a read of the stream that fails with an error other than "no data
\* available" ends the operation with that error.
C5_ReadErrorIsReturned ==
    [][\A dt \in Durations :
          ReadAttempt("BrokenPipe", dt) => (pc' = "done" /\ ret' = Err("BrokenPipe"))]_vars

\* C6: a failed write or flush ends the operation at once with that error:
\* no flush follows a failed write, get_velocity reads nothing, run_state
\* performs no further sleep, poll command or read.
C6_WriteFailureEndsOperation ==
    ioFail # NoFail =>
        /\ pc = "done"
        /\ ret = Err(ioFail.err)
        /\ ioFail.at = "write" => nFlush = nWrite - 1
        /\ ioFail.at = "flush" => nFlush = nWrite
        /\ call.op \in Writers \cup {"get_velocity"} => (nWrite = 1 /\ nLine = 0 /\ nSleep = 0)
        /\ call.op = "run_state" => (nSleep = nWrite - 1 /\ nLine = Max0(nWrite - 2))

\* the `r` command of the third poll fails to flush
C6_PollFailureWitness ==
    /\ pc = "done" /\ call.op = "run_state"
    /\ ioFail = [at |-> "flush", err |-> "BrokenPipe"]
    /\ nSleep = 3 /\ nLine = 2

\* C7: the string read_string returns has no leading and no trailing
\* whitespace, whether the call ended on a newline or on the timeout.
C7_ReturnedStringIsTrimmed ==
    rsEnd # "none" =>
        \/ rsRet = <<>>
        \/ ~IsWhitespace(rsRet[1]) /\ ~IsWhitespace(rsRet[Len(rsRet)])

\* C8: read_float and read_int return Ok whatever the line holds: zero for
\* an empty line or one that is no number of the type, the number otherwise.
C8_ParseFailureIsZero ==
    (pc = "done" /\ call.op \in {"read_int", "read_float"}) =>
        /\ ret.kind = "Ok"
        /\ call.op = "read_int" =>
              ret.val = IF rsRet # <<>> /\ \A i \in 1..Len(rsRet) : rsRet[i] \in {"1", "3"}
                        THEN DecVal(rsRet) ELSE 0
        /\ call.op = "read_float" =>
              /\ (rsRet = <<>> \/ \E i \in 1..Len(rsRet) : rsRet[i] = " ") => ret.val = F32Zero
              /\ (\A i \in 1..Len(rsRet) : rsRet[i] = ".") => ret.val = F32Zero
              /\ ParseFloat(rsRet).ok => ret.val = ParseFloat(rsRet).val
              /\ rsRet = <<"1", "3">> => ret.val = [m |-> 13, e |-> 0]
              /\ rsRet = <<".", "3">> => ret.val = [m |-> 3, e |-> 1]

\* read_int has read a line that is no integer
C8_NotANumberWitness ==
    /\ pc = "done" /\ call.op = "read_int"
    /\ rsRet = <<"1", ".">> /\ rsEnd = "newline"
    /\ ret = Ok(0)

\* C9: read_string returns without a newline only on a read attempt that
\* yields no byte, 1000 ms or more after the call began, and then returns Ok
\* of the characters accumulated so far.
C9_TimeoutReturn ==
    [][(pc = "read" /\ rsEnd' = "timeout") =>
          /\ string' = string
          /\ elapsed' >= TIMEOUT_MS
          /\ rsRet' = string
          /\ call.op = "read_string" => (pc' = "done" /\ ret' = Ok(string))]_vars

\* read_string has given up with a character accumulated
C9_TimeoutWitness ==
    /\ pc = "done" /\ call.op = "read_string"
    /\ rsEnd = "timeout" /\ elapsed >= TIMEOUT_MS
    /\ string = <<"3">> /\ ret = Ok(<<"3">>)

\* C10 as stated: whatever the stream does, a call of read_string returns.
C10_AlwaysReturns == (pc = "read") ~> (pc = "done")

\* C10: a call of read_string returns unless the stream goes on delivering
\* bytes other than the newline, and while it has not returned less than
\* 1000 ms have passed since the last byte was read (or the call began).
C10_ReturnsUnlessBytesKeepComing ==
    /\ []<>(pc # "read") \/ []<><<ByteRead>>_vars
    /\ [](pc = "read" => sinceByte < TIMEOUT_MS)

\* read_string has given up some time after it read its last character
C10_GaveUpAfterByteWitness ==
    /\ pc = "done" /\ call.op = "read_string" /\ rsEnd = "timeout"
    /\ string # <<>> /\ sinceByte > 0 /\ elapsed > sinceByte

\* the decimal text of the numbers of Floats
Shown(f) ==
    CASE f = [m |-> 0, e |-> 0]  -> "0"
      [] f = [m |-> 15, e |-> 1] -> "1.5"
      [] f = [m |-> -2, e |-> 0] -> "-2"

ShownOr0(o) == IF o.some THEN Shown(o.v) ELSE "0"

ShownAxis(a) == IF a = 0 THEN "0" ELSE "1"

\* C12: each command writer writes the line of the wire format, the
\* arguments in order, the axis as its number, an omitted argument as zero:
\* `p <axis> <position> <vel_ff> <cur_ff>`, `q <axis> <position> <vel_limit>
\* <cur_limit>`, `v <axis> <velocity> <cur_ff>`, `c <axis> <current>`,
\* `t <axis> <position>`.
C12_WriterLines ==
    (call.op \in Writers /\ pc \in {"flush", "done"} /\ ioFail.at # "write") =>
        LET a == ShownAxis(call.axis)
            x == Shown(call.position)
        IN  wire =
              CASE call.op = "set_position_p" ->
                     "p " \o a \o " " \o x \o " " \o ShownOr0(call.a1) \o " "
                          \o ShownOr0(call.a2) \o "\n"
                [] call.op = "set_position_q" ->
                     "q " \o a \o " " \o x \o " " \o ShownOr0(call.a1) \o " "
                          \o ShownOr0(call.a2) \o "\n"
                [] call.op = "set_velocity" ->
                     "v " \o a \o " " \o x \o " " \o ShownOr0(call.a1) \o "\n"
                [] call.op = "set_current" -> "c " \o a \o " " \o x \o "\n"
                [] call.op = "set_trajectory" -> "t " \o a \o " " \o x \o "\n"

\* set_position_q has written a line with one limit omitted
C12_LimitOmittedWitness ==
    /\ pc = "done" /\ call.op = "set_position_q" /\ ret.kind = "Ok"
    /\ call.axis = 1 /\ ~call.a1.some /\ call.a2.some
    /\ wire = "q 1 -2 0 1.5\n"

\* C13: a command writer that returns Ok has written one line and then
\* flushed once, with no other operation of the stream in between or after;
\* it returns Ok only if both succeeded, and the error of either otherwise.
C13_WriteThenFlush ==
    call.op \in Writers =>
        /\ pc \in {"write", "flush", "done"}
        /\ nSleep = 0 /\ nLine = 0
        /\ pc = "write" => (nWrite = 0 /\ nFlush = 0)
        /\ pc = "flush" => (nWrite = 1 /\ nFlush = 0 /\ ioFail = NoFail)
        /\ pc = "done" =>
              /\ ret.kind \in {"Ok", "Err"}
              /\ ret.kind = "Ok" => (nWrite = 1 /\ nFlush = 1 /\ ioFail = NoFail)
              /\ ret.kind = "Err" =>
                    (ioFail # NoFail /\ ret.val = ioFail.err /\ nWrite = 1
                        /\ nFlush = IF ioFail.at = "flush" THEN 1 ELSE 0)

\* a writer has returned the error of its flush
C13_FlushErrorWitness ==
    /\ pc = "done" /\ call.op = "set_trajectory"
    /\ ret.kind = "Err" /\ ret.val = "WouldBlock"
    /\ ioFail.at = "flush" /\ nWrite = 1 /\ nFlush = 1

\* C14: run_state with wait = true writes and flushes the `w` command once,
\* before anything else; every poll is a sleep, the write of
\* `r axis<N>.current_state`, a flush and one line read, in this order; on
\* a successful return as many lines were read as `r` commands written.
C14_PollOrder ==
    (call.op = "run_state" /\ call.wait) =>
        LET w == "w axis" \o ShownAxis(call.axis) \o ".requested_state "
                    \o ToString(call.requested_state) \o "\n"
            r == "r axis" \o ShownAxis(call.axis) \o ".current_state\n"
        IN  /\ pc = "write" => (nWrite = 0 /\ nFlush = 0 /\ nSleep = 0 /\ nLine = 0)
            /\ pc = "flush" =>
                  (nWrite = 1 /\ nFlush = 0 /\ nSleep = 0 /\ nLine = 0 /\ wire = w)
            /\ pc = "sleep" =>
                  (nSleep = nLine /\ nWrite = nLine + 1 /\ nFlush = nWrite
                      /\ wire = IF nLine = 0 THEN w ELSE r)
            /\ pc = "poll_write" =>
                  (nSleep = nLine + 1 /\ nWrite = nSleep /\ nFlush = nWrite
                      /\ wire = IF nLine = 0 THEN w ELSE r)
            /\ pc = "poll_flush" =>
                  (nSleep = nLine + 1 /\ nWrite = nSleep + 1 /\ nFlush = nSleep /\ wire = r)
            /\ pc = "read" =>
                  (nSleep = nLine /\ nWrite = nSleep + 1 /\ nFlush = nWrite /\ wire = r)
            /\ (pc = "done" /\ ret.kind = "Ok") =>
                  (nLine = nWrite - 1 /\ nSleep = nLine /\ nFlush = nWrite /\ wire = r)

\* the third poll is reading the reply to its `r` command
C14_ThirdPollWitness ==
    /\ pc = "read" /\ call.op = "run_state"
    /\ nSleep = 3 /\ nWrite = 4 /\ nFlush = 4 /\ nLine = 3
    /\ string = <<"3">>

\* C15: run_state with wait = true performs between 1 and 100 polls and
\* stops at the first poll that reads idle; a poll whose reply is empty or
\* no number takes one from the budget like any other.
C15_StopsAtFirstIdle ==
    (call.op = "run_state" /\ call.wait) =>
        /\ nLine <= POLL_BUDGET
        /\ pc \in {"read", "sleep", "done"} /\ nLine > 0 => timeout_ctr = POLL_BUDGET - nLine
        /\ idleAt > 0 => (pc = "done" /\ nLine = idleAt /\ nSleep = idleAt
                             /\ nWrite = idleAt + 1 /\ nFlush = idleAt + 1)
        /\ (pc = "done" /\ ret.kind = "Ok") => (nLine >= 1 /\ idleAt \in {0, nLine})
        /\ (pc = "sleep" /\ nLine > 0) => (idleAt = 0 /\ ParseIntOrDefault(rsRet) # Idle)

\* the third poll, after one that timed out with nothing read, has read idle
C15_IdleAtThirdWitness ==
    /\ WaitedRunStateDone
    /\ idleAt = 3 /\ nLine = 3 /\ timeout_ctr = POLL_BUDGET - 3
    /\ rsRet = <<"1">>

\* a command line is in the stream, written and not yet flushed
CommandWritten == pc \in {"flush", "poll_flush"} /\ ioFail = NoFail

\* C11: the client never writes a further command while the reply to an
\* earlier `r` command that the device received is not read entirely
\* (in a sequence of operations of the client in which the caller does not
\* use the stream directly and no failed write or flush leaves bytes behind).
C11_OneCommandInFlight == (CommandWritten /\ ~aside) => Outstanding = {}

\* s is a prefix of t
IsPrefix(s, t) == Len(s) <= Len(t) /\ SubSeq(t, 1, Len(s)) = s

\* C16: read_string takes the bytes of the stream in their order, one at a
\* time and none after the newline that ends it, the stream keeps what a
\* call did not take; the call begins with nothing accumulated, and
\* returns at the newline what it took before it, trimmed.
C16_BytesInStreamOrder ==
    [][ /\ pc \notin {"read", "raw"} => IsPrefix(rx, rx')
        /\ pc = "raw" =>
             \/ IsPrefix(rx, rx')
             \/ \E k \in 1..Len(rx) : rx' = SubSeq(rx, k + 1, Len(rx))
        /\ (pc # "read" /\ pc' = "read") => string' = <<>>
        /\ pc = "read" =>
             \/ IsPrefix(rx, rx') /\ string' = string /\ rsEnd' # "newline"
             \/ /\ rx # <<>>
                /\ rx' = Tail(rx)
                /\ IF Head(rx).b = "\n"
                   THEN /\ rsEnd' = "newline"
                        /\ rsRet' = Trim(string)
                        /\ pc' # "read"
                        /\ call.op = "read_string" => ret' = Ok(Trim(string))
                   ELSE /\ string' = Append(string, Head(rx).b)
                        /\ rsEnd' = "none"
                        /\ pc' = "read"
      ]_vars

\* read_string has returned the first of two lines in the stream, and the
\* second is still there
C16_NextLineStaysWitness ==
    /\ pc = "done" /\ call.op = "read_string" /\ rsEnd = "newline"
    /\ ret.kind = "Ok" /\ ret.val = <<"3">>
    /\ Len(rx) = 2 /\ rx[1].b = "1" /\ rx[2].b = "\n"

\* C17: the bytes that get_velocity, or a poll of run_state, parses are
\* bytes of the reply to the `r` command of this call or poll (in a
\* sequence of operations of the client in which the caller does not use the
\* stream directly and no failed write or flush leaves bytes behind).
C17_ReplyOfOwnCommand ==
    (call.op \in {"get_velocity", "run_state"} /\ ~aside) => from \subseteq {cur.id}

====
